---- MODULE Spec2Model ----
(***************************************************************************)
(* Model of the DCAdminCLI scripts dc2li.py and dcli.py: the `monitor`     *)
(* command (local sampling, remote collection over SSH, threshold          *)
(* classification and display) and the `netcheck` command (TCP port        *)
(* probing).                                                               *)
(*                                                                         *)
(* Numbers: metric values and thresholds are integers (whole percentages,  *)
(* which binary64 holds exactly).  The warning level threshold * 0.7 is    *)
(* the binary64 product: it differs from the exact 7 * threshold / 10 by   *)
(* less than any gap between it and a whole percentage, so a comparison    *)
(* with a value is the exact one unless the two are equal, and then it is  *)
(* decided by the direction in which the product was rounded.              *)
(* Text: a command's stdout is a sequence of tokens, a token being a       *)
(* number, a newline or a non-numeric word.                                *)
(***************************************************************************)
EXTENDS Integers, Sequences, FiniteSets, TLC

\* ---------------------------------------------------------------- bounds
MaxStep == 11
MaxHosts == 2
MaxPorts == 2

\* default of --threshold-disk
DefaultDiskThreshold == 90

\* Usage percentages a command or a sample can report: every ninth percent.
Values == {9 * k : k \in 0..MaxStep}
\* Values a --threshold-* option is given.
Thresholds == {0, DefaultDiskThreshold}
Metrics == <<"cpu", "memory", "disk">>
MetricSet == {"cpu", "memory", "disk"}

VARIABLES
    script,      \* "dc2li" or "dcli": which script runs
    command,     \* "monitor" or "netcheck"
    host,        \* --host of monitor: "localhost" or "remote"
    key_path,    \* --key-path: "None", "" or a path
    password,    \* --password: "None", "" or a secret
    thr,         \* --threshold-cpu / -mem / -disk, by metric
    pc,          \* position in the command
    lastProbe,   \* the latest port probe: its network outcome and what it returned
    socksOpen,   \* probe sockets created and not closed
    client,      \* the paramiko.SSHClient of this check
    connectLog,  \* credential variant of every client.connect() call made
    execLog,     \* metric of every client.exec_command() call made
    stats,       \* the stats dictionary: a function from the metrics it holds to values
    parsed,      \* per metric, what its command yielded: pending, failed or ok with the value
    colors,      \* colour each metric line was printed in ("none" before display)
    alerts,      \* alerts list returned by _check_thresholds
    warnings,    \* warnings list returned by _check_thresholds
    allNormal,   \* "All systems normal" was printed
    classified,  \* _check_thresholds has run and its lists were displayed
    hints,       \* troubleshooting tips printed
    closeCount,  \* calls of client.close()
    raising,     \* an exception is propagating through the try/finally
    outcome,     \* how the command ended
    nPorts,      \* netcheck: length of ports_list
    hostsLeft,   \* netcheck: hosts still to check, this one included
    portsLeft    \* netcheck: ports still to probe on this host

vars == <<script, command, host, key_path, password, thr, pc, lastProbe, socksOpen,
          client, connectLog, execLog, stats, parsed, colors, alerts, warnings,
          allNormal, classified, hints, closeCount, raising, outcome, nPorts,
          hostsLeft, portsLeft>>

monitorVars == <<client, connectLog, execLog, stats, parsed, colors, alerts, warnings,
                 allNormal, classified, hints, closeCount, raising>>
inputVars == <<script, command, host, key_path, password, thr, nPorts>>
netVars == <<hostsLeft, portsLeft>>

\* ------------------------------------------------------------ pure parts

\* Python truthiness of an optional string argument: None and "" are falsy.
Truthy(s) == s \notin {"None", ""}

\* Tokens of a command's output.
Num(v) == [kind |-> "num", val |-> v]
Newline == [kind |-> "newline", val |-> 0]
Word == [kind |-> "word", val |-> 0]

\* str.strip(): drops leading and trailing whitespace tokens.
RECURSIVE StripLeft(_)
StripLeft(s) ==
    IF s # <<>> /\ Head(s).kind = "newline" THEN StripLeft(Tail(s)) ELSE s

RECURSIVE StripRight(_)
StripRight(s) ==
    IF s # <<>> /\ s[Len(s)].kind = "newline"
    THEN StripRight(SubSeq(s, 1, Len(s) - 1))
    ELSE s

Strip(s) == StripRight(StripLeft(s))

\* float(text) if text else 0, on stripped text: [ok, value]; ok = FALSE is ValueError.
ParseUsage(text) ==
    IF text = <<>> THEN [ok |-> TRUE, value |-> 0, obtained |-> FALSE]
    ELSE IF Len(text) = 1 /\ text[1].kind = "num"
         THEN [ok |-> TRUE, value |-> text[1].val, obtained |-> TRUE]
         ELSE [ok |-> FALSE, value |-> 0, obtained |-> FALSE]

\* The largest power of two p * 2^k whose tenfold is at most n.
RECURSIVE Binade(_, _)
Binade(n, p) == IF 10 * (2 * p) <= n THEN Binade(n, 2 * p) ELSE p

\* threshold * 0.7 in binary64 is below the exact 7 * threshold / 10, for a
\* threshold whose exact product is a whole number.  The double 0.7 is
\* 0.7 - 0.4 * 2^-53, so the product misses the exact value by
\* 0.4 * threshold * 2^-53 and is rounded away from it when that exceeds half a
\* unit in the last place, E * 2^-53 with E the power of two at or below the
\* product (a tie rounds back to the exact value, whose significand is even).
ProductRoundsDown(threshold) ==
    threshold > 0 /\ 2 * threshold > 5 * Binade(7 * threshold, 1)

\* value > threshold * 0.7, the product and the comparison in binary64
AboveWarningLevel(value, threshold) ==
    \/ 10 * value > 7 * threshold
    \/ 10 * value = 7 * threshold /\ ProductRoundsDown(threshold)

GetColorForMetricYellowAtLevel(value, threshold) ==
    IF value > threshold THEN "red"
    ELSE IF AboveWarningLevel(value, threshold) \/ 10 * value = 7 * threshold THEN "yellow"
    ELSE "green"

GetColorForMetric(value, threshold) ==
    IF value > threshold THEN "red"
    ELSE IF AboveWarningLevel(value, threshold) THEN "yellow"
    ELSE "green"

Entry(m, st) == [metric |-> m, value |-> st[m]]

CheckThresholdsAlertAtThreshold(st, t) ==
    [alerts |->
        (IF st["cpu"] >= t["cpu"] THEN <<Entry("cpu", st)>> ELSE <<>>)
        \o (IF st["memory"] >= t["memory"] THEN <<Entry("memory", st)>> ELSE <<>>)
        \o (IF st["disk"] >= t["disk"] THEN <<Entry("disk", st)>> ELSE <<>>),
     warnings |->
        (IF AboveWarningLevel(st["cpu"], t["cpu"]) /\ st["cpu"] < t["cpu"]
            THEN <<Entry("cpu", st)>> ELSE <<>>)
        \o (IF AboveWarningLevel(st["memory"], t["memory"]) /\ st["memory"] < t["memory"]
            THEN <<Entry("memory", st)>> ELSE <<>>)
        \o (IF AboveWarningLevel(st["disk"], t["disk"]) /\ st["disk"] < t["disk"]
            THEN <<Entry("disk", st)>> ELSE <<>>)]

\* _check_thresholds: alerts first, then warnings, each in the order cpu, memory, disk.
CheckThresholds(st, t) ==
    [alerts |->
        (IF st["cpu"] > t["cpu"] THEN <<Entry("cpu", st)>> ELSE <<>>)
        \o (IF st["memory"] > t["memory"] THEN <<Entry("memory", st)>> ELSE <<>>)
        \o (IF st["disk"] > t["disk"] THEN <<Entry("disk", st)>> ELSE <<>>),
     warnings |->
        (IF AboveWarningLevel(st["cpu"], t["cpu"]) /\ st["cpu"] <= t["cpu"]
            THEN <<Entry("cpu", st)>> ELSE <<>>)
        \o (IF AboveWarningLevel(st["memory"], t["memory"]) /\ st["memory"] <= t["memory"]
            THEN <<Entry("memory", st)>> ELSE <<>>)
        \o (IF AboveWarningLevel(st["disk"], t["disk"]) /\ st["disk"] <= t["disk"]
            THEN <<Entry("disk", st)>> ELSE <<>>)]

\* What the network does to one TCP connect.
ConnectOutcomes == {"open", "refused", "timeout", "unreachable", "dns_failure"}

\* connect_ex() returns an error code for the errors of the C-level connect()
\* and raises socket.gaierror when the host name does not resolve.
ConnectExRaises(o) == o = "dns_failure"

\* dc2li.test_connectivity under network outcome o; `finalized` says whether the
\* interpreter has already finalized the socket object the except path never closes.
TestConnectivity(o, finalized) ==
    IF ConnectExRaises(o)
    THEN [result |-> FALSE, raised |-> FALSE, leaked |-> IF finalized THEN 0 ELSE 1]
    ELSE [result |-> (o = "open"), raised |-> FALSE, leaked |-> 0]

\* The inline probe of dcli.netcheck: no try/except around connect_ex.
DcliProbe(o, finalized) ==
    IF ConnectExRaises(o)
    THEN [result |-> FALSE, raised |-> TRUE, leaked |-> IF finalized THEN 0 ELSE 1]
    ELSE [result |-> (o = "open"), raised |-> FALSE, leaked |-> 0]

\* What client.connect() does: "ok", "auth_error" (TCP connected, transport
\* started, credential rejected) or "connect_error" (no transport was set up).
ConnectResults == {"ok", "auth_error", "connect_error"}

ClientAfterConnect(res) ==
    CASE res = "ok" -> "open"
      [] res = "auth_error" -> "transport"
      [] OTHER -> "new"

SshConnectPasswordFirst(kp, pw, res) ==
    [attempts |-> IF Truthy(pw) THEN <<"password">>
                  ELSE IF Truthy(kp) THEN <<"key">>
                  ELSE <<"agent">>,
     client |-> ClientAfterConnect(res),
     returned |-> IF res = "ok" THEN "client" ELSE "None",
     raised |-> FALSE]

\* dc2li.ssh_connect
SshConnect(kp, pw, res) ==
    [attempts |-> IF Truthy(kp) THEN <<"key">>
                  ELSE IF Truthy(pw) THEN <<"password">>
                  ELSE <<"agent">>,
     client |-> ClientAfterConnect(res),
     returned |-> IF res = "ok" THEN "client" ELSE "None",
     raised |-> FALSE]

\* dcli.ssh_connect: no try/except, and ValueError when no credential is given.
DcliSshConnect(kp, pw, res) ==
    IF Truthy(kp) \/ Truthy(pw)
    THEN [attempts |-> IF Truthy(kp) THEN <<"key">> ELSE <<"password">>,
          client |-> ClientAfterConnect(res),
          returned |-> IF res = "ok" THEN "client" ELSE "None",
          raised |-> res # "ok"]
    ELSE [attempts |-> <<>>, client |-> "new", returned |-> "None", raised |-> TRUE]

TroubleshootingTips ==
    <<"Check if the host is online", "Verify SSH service is running",
      "Check firewall settings", "Verify network connectivity">>

\* stdout of a metric command
RawOutputs ==
    {<<>>, <<Newline>>, <<Word, Newline>>} \cup {<<Num(v), Newline>> : v \in Values}

EmptyDict == [m \in {} |-> 0]
SetItem(d, k, v) == [x \in DOMAIN d \cup {k} |-> IF x = k THEN v ELSE d[x]]
PendingMetric == [state |-> "pending", value |-> 0]
FailedMetric == [state |-> "failed", value |-> 0]
Obtained(v) == [state |-> "ok", value |-> v]
NoColors == [m \in MetricSet |-> "none"]
Pending == [m \in MetricSet |-> PendingMetric]
ZeroStats == [m \in MetricSet |-> 0]
DefaultThresholds == [cpu |-> 80, memory |-> 85, disk |-> 90]
NoProbe == [outcome |-> "none", result |-> FALSE]
\* ------------------------------------------------------------------ Init

OptionalStrings(given) == {"None", "", given}

Init ==
    /\ script \in {"dc2li", "dcli"}
    /\ command \in {"monitor", "netcheck"}
    /\ IF command = "monitor" /\ script = "dc2li"
       THEN /\ host \in {"localhost", "remote"}
            /\ thr \in [MetricSet -> Thresholds]
            /\ IF host = "remote"
               THEN /\ key_path \in OptionalStrings("id_rsa")
                    /\ password \in OptionalStrings("secret")
               ELSE key_path = "None" /\ password = "None"
       ELSE /\ host = "remote"
            /\ thr = DefaultThresholds
            /\ key_path = "None"
            /\ password = "None"
    /\ IF command = "netcheck"
       THEN /\ nPorts \in 1..MaxPorts
            /\ hostsLeft \in 1..MaxHosts
       ELSE nPorts = 0 /\ hostsLeft = 0
    /\ portsLeft = nPorts
    /\ pc = "start"
    /\ lastProbe = NoProbe
    /\ socksOpen = 0
    /\ client = "none"
    /\ connectLog = <<>>
    /\ execLog = <<>>
    /\ stats = EmptyDict
    /\ parsed = Pending
    /\ colors = NoColors
    /\ alerts = <<>>
    /\ warnings = <<>>
    /\ allNormal = FALSE
    /\ classified = FALSE
    /\ hints = <<>>
    /\ closeCount = 0
    /\ raising = FALSE
    /\ outcome = "none"

\* ------------------------------------------------------- dc2li: monitor

\* monitor: a host other than localhost is checked remotely.
Monitor ==
    /\ script = "dc2li" /\ command = "monitor" /\ pc = "start"
    /\ pc' = IF host # "localhost" THEN "probe" ELSE "local"
    /\ UNCHANGED <<inputVars, monitorVars, netVars, lastProbe, socksOpen, outcome>>

MonitorRemoteProbeNoReturn ==
    /\ pc = "probe"
    /\ \E o \in ConnectOutcomes, finalized \in BOOLEAN :
        LET r == TestConnectivity(o, finalized) IN
        /\ lastProbe' = [outcome |-> o, result |-> r.result]
        /\ socksOpen' = socksOpen + r.leaked
        /\ IF ~r.result
           THEN /\ hints' = TroubleshootingTips
                /\ pc' = "connect"
                /\ outcome' = "Unreachable"
           ELSE /\ pc' = "connect"
                /\ UNCHANGED <<hints, outcome>>
    /\ UNCHANGED <<inputVars, netVars, client, connectLog, execLog, stats, parsed, colors,
                   alerts, warnings, allNormal, classified, closeCount, raising>>

\* _monitor_remote, connectivity test: a closed port 22 ends the check with the tips.
MonitorRemoteProbe ==
    /\ pc = "probe"
    /\ \E o \in ConnectOutcomes, finalized \in BOOLEAN :
        LET r == TestConnectivity(o, finalized) IN
        /\ lastProbe' = [outcome |-> o, result |-> r.result]
        /\ socksOpen' = socksOpen + r.leaked
        /\ IF ~r.result
           THEN /\ hints' = TroubleshootingTips
                /\ pc' = "done"
                /\ outcome' = "Unreachable"
           ELSE /\ pc' = "connect"
                /\ UNCHANGED <<hints, outcome>>
    /\ UNCHANGED <<inputVars, netVars, client, connectLog, execLog, stats, parsed, colors,
                   alerts, warnings, allNormal, classified, closeCount, raising>>

\* _monitor_remote, ssh_connect and the `if not client: return`.
MonitorRemoteConnect ==
    /\ pc = "connect"
    /\ \E res \in ConnectResults :
        LET r == SshConnect(key_path, password, res) IN
        /\ connectLog' = connectLog \o r.attempts
        /\ client' = r.client
        /\ IF r.returned = "None"
           THEN pc' = "done" /\ outcome' = "ConnectFailed"
           ELSE pc' = "stats" /\ UNCHANGED outcome
    /\ UNCHANGED <<inputVars, netVars, lastProbe, socksOpen, execLog, stats, parsed,
                   colors, alerts, warnings, allNormal, classified, hints, closeCount,
                   raising>>

\* get_remote_stats, one metric command: exec_command, read, strip, float.  Any
\* exception inside the single try block replaces the whole dictionary by zeros
\* and ends the collection.
GetRemoteStats ==
    /\ pc = "stats"
    /\ LET m == Metrics[Len(execLog) + 1] IN
       /\ execLog' = Append(execLog, m)
       /\ \/ \E raw \in RawOutputs :
               LET p == ParseUsage(Strip(raw)) IN
               IF p.ok
               THEN /\ stats' = SetItem(stats, m, p.value)
                    /\ parsed' = [parsed EXCEPT
                                    ![m] = IF p.obtained THEN Obtained(p.value) ELSE FailedMetric]
                    /\ pc' = IF m = "disk" THEN "display" ELSE "stats"
               ELSE /\ stats' = ZeroStats
                    /\ parsed' = [parsed EXCEPT ![m] = FailedMetric]
                    /\ pc' = "display"
          \/ /\ stats' = ZeroStats
             /\ parsed' = [parsed EXCEPT ![m] = FailedMetric]
             /\ pc' = "display"
    /\ UNCHANGED <<inputVars, netVars, lastProbe, socksOpen, client, connectLog, colors,
                   alerts, warnings, allNormal, classified, hints, closeCount, raising,
                   outcome>>

\* _monitor_local: psutil samples.
MonitorLocal ==
    /\ pc = "local"
    /\ \E s \in [MetricSet -> Values] :
        /\ stats' = s
        /\ parsed' = [m \in MetricSet |-> Obtained(s[m])]
    /\ pc' = "display"
    /\ UNCHANGED <<inputVars, netVars, lastProbe, socksOpen, client, connectLog, execLog,
                   colors, alerts, warnings, allNormal, classified, hints, closeCount,
                   raising, outcome>>

\* Where control goes when _display_monitoring_results ends: the finally block of
\* _monitor_remote, or the end of _monitor_local.
AfterDisplay == IF host = "localhost" THEN "done" ELSE "finally"

DisplayMonitoringResultsSkipFinally ==
    /\ pc = "display"
    /\ \/ LET r == CheckThresholds(stats, thr) IN
          /\ colors' = [m \in MetricSet |-> GetColorForMetric(stats[m], thr[m])]
          /\ alerts' = r.alerts
          /\ warnings' = r.warnings
          /\ allNormal' = (r.alerts = <<>> /\ r.warnings = <<>>)
          /\ classified' = TRUE
          /\ outcome' = IF host = "localhost" THEN "Reported" ELSE outcome
          /\ pc' = AfterDisplay
          /\ UNCHANGED raising
       \/ /\ raising' = TRUE
          /\ outcome' = "Raised"
          /\ pc' = "done"
          /\ UNCHANGED <<colors, alerts, warnings, allNormal, classified>>
    /\ UNCHANGED <<inputVars, netVars, lastProbe, socksOpen, client, connectLog, execLog,
                   stats, parsed, hints, closeCount>>

\* _display_monitoring_results: colours, _check_thresholds, the lists; or an
\* exception raised by the output stream before anything is reported.
DisplayMonitoringResults ==
    /\ pc = "display"
    /\ \/ LET r == CheckThresholds(stats, thr) IN
          /\ colors' = [m \in MetricSet |-> GetColorForMetric(stats[m], thr[m])]
          /\ alerts' = r.alerts
          /\ warnings' = r.warnings
          /\ allNormal' = (r.alerts = <<>> /\ r.warnings = <<>>)
          /\ classified' = TRUE
          /\ outcome' = IF host = "localhost" THEN "Reported" ELSE outcome
          /\ pc' = AfterDisplay
          /\ UNCHANGED raising
       \/ /\ raising' = TRUE
          /\ outcome' = IF host = "localhost" THEN "Raised" ELSE outcome
          /\ pc' = AfterDisplay
          /\ UNCHANGED <<colors, alerts, warnings, allNormal, classified>>
    /\ UNCHANGED <<inputVars, netVars, lastProbe, socksOpen, client, connectLog, execLog,
                   stats, parsed, hints, closeCount>>

\* _monitor_remote, finally: client.close(), then return or re-raise.
MonitorRemoteFinally ==
    /\ pc = "finally"
    /\ client' = "closed"
    /\ closeCount' = closeCount + 1
    /\ outcome' = IF raising THEN "Raised" ELSE "Reported"
    /\ pc' = "done"
    /\ UNCHANGED <<inputVars, netVars, lastProbe, socksOpen, connectLog, execLog, stats,
                   parsed, colors, alerts, warnings, allNormal, classified, hints, raising>>
\* ------------------------------------------------------ dc2li: netcheck

NetcheckAdvance(left) ==
    IF left > 0
    THEN /\ portsLeft' = left
         /\ pc' = "nc_port"
         /\ UNCHANGED <<hostsLeft, outcome>>
    ELSE /\ portsLeft' = nPorts
         /\ hostsLeft' = hostsLeft - 1
         /\ pc' = IF hostsLeft > 1 THEN "nc_ping" ELSE "done"
         /\ outcome' = IF hostsLeft > 1 THEN outcome ELSE "Completed"

\* netcheck, per host: the "ping", a test_connectivity on port 22.
NetcheckPing ==
    /\ script = "dc2li" /\ command = "netcheck" /\ pc \in {"start", "nc_ping"}
    /\ \E o \in ConnectOutcomes, finalized \in BOOLEAN :
        LET r == TestConnectivity(o, finalized) IN
        /\ lastProbe' = [outcome |-> o, result |-> r.result]
        /\ socksOpen' = socksOpen + r.leaked
    /\ pc' = "nc_port"
    /\ UNCHANGED <<inputVars, monitorVars, netVars, outcome>>

\* netcheck, per port: test_connectivity(host, port, 2).
NetcheckPort ==
    /\ script = "dc2li" /\ command = "netcheck" /\ pc = "nc_port"
    /\ \E o \in ConnectOutcomes, finalized \in BOOLEAN :
        LET r == TestConnectivity(o, finalized) IN
        /\ lastProbe' = [outcome |-> o, result |-> r.result]
        /\ socksOpen' = socksOpen + r.leaked
    /\ NetcheckAdvance(portsLeft - 1)
    /\ UNCHANGED <<inputVars, monitorVars>>

\* ------------------------------------------------------------------ dcli

\* dcli.netcheck, per host: one ping through subprocess; a failed ping is caught.
DcliNetcheckPing ==
    /\ script = "dcli" /\ command = "netcheck" /\ pc \in {"start", "nc_ping"}
    /\ pc' = "nc_port"
    /\ UNCHANGED <<inputVars, monitorVars, netVars, lastProbe, socksOpen, outcome>>

\* dcli.netcheck, per port: socket, settimeout, connect_ex, close, with no try/except.
DcliNetcheckPort ==
    /\ script = "dcli" /\ command = "netcheck" /\ pc = "nc_port"
    /\ \E o \in ConnectOutcomes, finalized \in BOOLEAN :
        LET r == DcliProbe(o, finalized) IN
        /\ lastProbe' = [outcome |-> o, result |-> r.result]
        /\ socksOpen' = socksOpen + r.leaked
        /\ IF r.raised
           THEN /\ outcome' = "Raised"
                /\ pc' = "done"
                /\ UNCHANGED <<hostsLeft, portsLeft>>
           ELSE NetcheckAdvance(portsLeft - 1)
    /\ UNCHANGED <<inputVars, monitorVars>>

\* dcli.monitor on a remote host: ssh_connect(host, 'admin'), one command, close;
\* nothing is caught and the close is not in a finally block.
DcliMonitor ==
    /\ script = "dcli" /\ command = "monitor" /\ pc = "start"
    /\ \E res \in ConnectResults, execFault \in BOOLEAN :
        LET r == DcliSshConnect("None", "None", res) IN
        /\ connectLog' = connectLog \o r.attempts
        /\ IF r.raised
           THEN /\ client' = r.client
                /\ outcome' = "Raised"
                /\ UNCHANGED closeCount
           ELSE IF execFault
           THEN /\ client' = r.client
                /\ outcome' = "Raised"
                /\ UNCHANGED closeCount
           ELSE /\ client' = "closed"
                /\ closeCount' = closeCount + 1
                /\ outcome' = "Reported"
    /\ pc' = "done"
    /\ UNCHANGED <<inputVars, netVars, lastProbe, socksOpen, execLog, stats, parsed,
                   colors, alerts, warnings, allNormal, classified, hints, raising>>

\* ------------------------------------------------------------------ Spec

Next ==
    \/ Monitor
    \/ MonitorRemoteProbe
    \/ MonitorRemoteConnect
    \/ GetRemoteStats
    \/ MonitorLocal
    \/ DisplayMonitoringResults
    \/ MonitorRemoteFinally
    \/ NetcheckPing
    \/ NetcheckPort
    \/ DcliNetcheckPing
    \/ DcliNetcheckPort
    \/ DcliMonitor

Spec == Init /\ [][Next]_vars
\* ---------------------------------------------------------------- claims

InAlerts(m) == \E i \in 1..Len(alerts) : alerts[i].metric = m
InWarnings(m) == \E i \in 1..Len(warnings) : warnings[i].metric = m

RemoteCheck == script = "dc2li" /\ command = "monitor" /\ host = "remote"
Probed == lastProbe.outcome # "none"
SessionOpened == client \in {"open", "closed"}
CollectionReturned == RemoteCheck /\ pc \in {"display", "finally", "done"} /\ execLog # <<>>
NotObtained(m) == parsed[m].state # "ok"
ExpectedVariant ==
    IF Truthy(key_path) THEN "key" ELSE IF Truthy(password) THEN "password" ELSE "agent"

\* C1 as stated: after classification, for every metric with threshold t > 0 and
\* value v, the metric is in alerts iff v > t and in warnings iff 0.7 t < v <= t;
\* and for every threshold, no metric is in both lists.
C1_Classification ==
    classified =>
        \A m \in MetricSet :
            /\ thr[m] > 0 =>
                /\ InAlerts(m) <=> stats[m] > thr[m]
                /\ InWarnings(m) <=> (7 * thr[m] < 10 * stats[m] /\ stats[m] <= thr[m])
            /\ ~(InAlerts(m) /\ InWarnings(m))

\* C2 as stated: a metric whose value equals its (positive) threshold is
\* reported Critical (in alerts) and not Warning.
C2_EqualIsCritical ==
    classified =>
        \A m \in MetricSet :
            thr[m] > 0 /\ stats[m] = thr[m] => InAlerts(m) /\ ~InWarnings(m)

\* C2 amended: a metric whose value equals its threshold is never reported
\* Critical; when the threshold is positive it is reported Warning.
C2_EqualIsWarning ==
    classified =>
        \A m \in MetricSet :
            stats[m] = thr[m] => ~InAlerts(m) /\ (thr[m] > 0 => InWarnings(m))

C2_Witness ==
    classified /\ thr["cpu"] > 0 /\ stats["cpu"] = thr["cpu"] /\ InWarnings("cpu")

\* C3 as stated: when remote collection has returned, every metric whose command
\* succeeded and parsed has its parsed value in the stats, and all three commands
\* were executed.
C3_FailureIsolated ==
    CollectionReturned =>
        /\ \A m \in MetricSet :
            parsed[m].state = "ok" => m \in DOMAIN stats /\ stats[m] = parsed[m].value
        /\ execLog = Metrics

\* C4: a session that was opened is closed exactly once by the time the check
\* has returned, whether it ended normally or by a fault; close is never called
\* twice.
C4_ClosedExactlyOnce ==
    /\ closeCount <= 1
    /\ pc = "done" /\ SessionOpened => client = "closed" /\ closeCount = 1

C4_Witness ==
    /\ RemoteCheck /\ pc = "done" /\ outcome = "Raised"
    /\ parsed["memory"].state = "failed" /\ parsed["cpu"].state = "ok"
    /\ client = "closed" /\ closeCount = 1

\* C5: in a remote check nothing is connected, executed or classified before the
\* probe, and a check whose probe found port 22 closed ends Unreachable with the
\* four fixed tips, no connect attempt, no command and no classification.
C5_ClosedPortStopsCheck ==
    RemoteCheck =>
        /\ (connectLog # <<>> \/ client # "none" \/ execLog # <<>> \/ classified
              \/ hints # <<>>) => Probed
        /\ Probed /\ ~lastProbe.result =>
            /\ pc = "done"
            /\ outcome = "Unreachable"
            /\ Len(hints) = 4 /\ hints = TroubleshootingTips
            /\ connectLog = <<>> /\ client = "none"
            /\ execLog = <<>> /\ stats = EmptyDict
            /\ ~classified

C5_Witness ==
    RemoteCheck /\ pc = "done" /\ lastProbe.outcome = "refused" /\ outcome = "Unreachable"

\* C6 as stated: when the probe succeeded and opening the session failed, no
\* command ran, nothing was classified, the failure was not raised, and no
\* connection handle of the attempt is open when the check has returned.
C6_FailedOpenLeavesNothing ==
    RemoteCheck /\ pc = "done" /\ lastProbe.result /\ connectLog # <<>> /\ ~SessionOpened =>
        /\ execLog = <<>>
        /\ ~classified
        /\ outcome # "Raised"
        /\ client # "transport"

\* C7 as stated: after classification against positive thresholds a metric whose
\* value was not obtained is in neither list and the stats hold no number for it.
C7_UnknownNeverReported ==
    classified /\ (\A m \in MetricSet : thr[m] > 0) =>
        \A m \in MetricSet :
            NotObtained(m) => ~InAlerts(m) /\ ~InWarnings(m) /\ m \notin DOMAIN stats

\* C8 as stated: once ssh_connect has been called, exactly one connect attempt
\* was made, with the key if a key path was given, else the password if one was
\* given, else the agent.
C8_OneAttemptByPriority ==
    client # "none" => connectLog = <<ExpectedVariant>>

\* C9 as stated: a probe returns true iff the connect completed, no probe fault
\* reaches the caller, and no socket is open after it.
C9_ProbeNeverFails ==
    Probed =>
        /\ lastProbe.result <=> lastProbe.outcome = "open"
        /\ command = "netcheck" => outcome # "Raised"
        /\ socksOpen = 0

\* C10: in a displayed report each metric's colour is red iff it is in alerts,
\* yellow iff it is in warnings, green iff it is in neither, and "All systems
\* normal" is printed iff all three are green.
C10_ColoursAgree ==
    classified =>
        /\ \A m \in MetricSet :
            /\ colors[m] = "red" <=> InAlerts(m)
            /\ colors[m] = "yellow" <=> InWarnings(m)
            /\ colors[m] = "green" <=> (~InAlerts(m) /\ ~InWarnings(m))
        /\ allNormal <=> \A m \in MetricSet : colors[m] = "green"

C10_Witness ==
    /\ classified /\ ~allNormal
    /\ colors["cpu"] = "red" /\ colors["memory"] = "yellow" /\ colors["disk"] = "green"
    /\ 10 * stats["memory"] = 7 * thr["memory"]
====
